---- MODULE Spec2Model ----
(***************************************************************************)
(* qmk compiledb (lib/python/qmk/cli/compiledb.py).                        *)
(*                                                                         *)
(* Text is modelled as a sequence of one-character strings, so that the    *)
(* two regular expressions, shlex.split and shlex.quote work on the        *)
(* characters the program sees.                                            *)
(***************************************************************************)
EXTENDS Integers, Sequences, FiniteSets, Bags, TLC

None == "None"

\* a value that may be missing: <<>> while it is, <<v>> once it is v
Nothing == <<>>
Some(v) == <<v>>

Min(S) == CHOOSE x \in S : \A y \in S : x <= y

RECURSIVE Flatten(_)
Flatten(ss) ==
    IF ss = <<>> THEN <<>> ELSE Head(ss) \o Flatten(Tail(ss))

\* s starts with lit at position i
StartsAt(s, i, lit) ==
    /\ i + Len(lit) - 1 <= Len(s)
    /\ \A k \in 1..Len(lit) : s[i + k - 1] = lit[k]

NL == "\n"
DQ == "\""
SQ == "'"
BS == "\\"
SP == " "

(***************************************************************************)
(* The literals of the two patterns and the stripped flag.                 *)
(***************************************************************************)
\* printf "Compiling:
FILE_LIT ==
    <<"p","r","i","n","t","f"," ","\"","C","o","m","p","i","l","i","n","g",":"," ">>

\* LOG=$(
CMD_OPEN == <<"L","O","G","=","$","(">>

\* &&
CMD_CLOSE == <<"&","&">>

\* -mno-thumb-interwork
NO_THUMB_INTERWORK ==
    <<"-","m","n","o","-","t","h","u","m","b","-","i","n","t","e","r","w","o","r","k">>

NoMatch == [matched |-> FALSE, group |-> <<>>]

(***************************************************************************)
(* file_re.search(line): the leftmost place where the literal is followed  *)
(* by at least one character other than a double quote; the group is the   *)
(* longest run of such characters ([^"]+ is greedy and also takes a line   *)
(* terminator).                                                            *)
(***************************************************************************)
file_re_search(line) ==
    LET n    == Len(FILE_LIT)
        hits == {i \in 1..Len(line) :
                    /\ StartsAt(line, i, FILE_LIT)
                    /\ i + n <= Len(line)
                    /\ line[i + n] # DQ}
    IN  IF hits = {} THEN NoMatch
        ELSE LET s    == Min(hits) + n
                 ends == {e \in s..Len(line) :
                             /\ \A k \in s..e : line[k] # DQ
                             /\ (e = Len(line) \/ line[e + 1] = DQ)}
             IN  [matched |-> TRUE, group |-> SubSeq(line, s, Min(ends))]

(***************************************************************************)
(* cmd_re.search(line): the leftmost opener that is followed, after at     *)
(* least one character and with no line terminator in between ('.' does    *)
(* not match it), by &&; the group is lazy, so it ends at the first such   *)
(* &&.                                                                     *)
(***************************************************************************)
CmdEnds(line, i) ==
    LET s == i + Len(CMD_OPEN)
    IN  {j \in (s + 1)..Len(line) :
            /\ StartsAt(line, j, CMD_CLOSE)
            /\ \A k \in s..(j - 1) : line[k] # NL}

\* a search whose group runs to the last && of the line
cmd_re_search_greedy(line) ==
    LET hits == {i \in 1..Len(line) :
                    StartsAt(line, i, CMD_OPEN) /\ CmdEnds(line, i) # {}}
    IN  IF hits = {} THEN NoMatch
        ELSE LET i == Min(hits)
                 last == CHOOSE j \in CmdEnds(line, i) : \A k \in CmdEnds(line, i) : k <= j
             IN  [matched |-> TRUE,
                  group   |-> SubSeq(line, i + Len(CMD_OPEN), last - 1)]

cmd_re_search(line) ==
    LET hits == {i \in 1..Len(line) :
                    StartsAt(line, i, CMD_OPEN) /\ CmdEnds(line, i) # {}}
    IN  IF hits = {} THEN NoMatch
        ELSE LET i == Min(hits)
             IN  [matched |-> TRUE,
                  group   |-> SubSeq(line, i + Len(CMD_OPEN), Min(CmdEnds(line, i)) - 1)]

(***************************************************************************)
(* shlex.split(s): shlex(s, posix=True) with whitespace_split set and no   *)
(* commenters, read to the end.  The result is the token list, or the      *)
(* ValueError the lexer raises at the end of the text inside a quotation   *)
(* or after an escape character.                                           *)
(***************************************************************************)
WHITESPACE == {" ", "\t", "\r", "\n"}
QUOTES == {"'", "\""}
ESCAPE == {"\\"}
ESCAPEDQUOTES == {"\""}

\* an exception: its type and its arguments
Exception(type, arguments) == [type |-> type, args |-> arguments]

Raised(e) == [ok |-> FALSE, exc |-> Some(e), toks |-> <<>>]
Returned(v) == [ok |-> TRUE, exc |-> Nothing, toks |-> v]

\* The lexer between two characters: its state (' ', 'a', a quote or the
\* escape character), the state an escape returns to, the token being read,
\* whether a quotation was seen in it, and the tokens returned so far.
LexStart == [st |-> " ", esc |-> " ", tok |-> <<>>, quoted |-> FALSE, out |-> <<>>]

\* read_token's "emit current token": a token is returned when it is not
\* empty or was quoted
EmitToken(X) ==
    [X EXCEPT !.st = " ", !.tok = <<>>, !.quoted = FALSE,
              !.out = IF X.tok # <<>> \/ X.quoted THEN Append(@, X.tok) ELSE @]

\* read_token on the next character c
read_char(X, c) ==
    CASE X.st = " " ->
           IF c \in WHITESPACE THEN EmitToken(X)
           ELSE IF c \in ESCAPE THEN [X EXCEPT !.esc = "a", !.st = c]
           ELSE IF c \in QUOTES THEN [X EXCEPT !.st = c]
           ELSE [X EXCEPT !.tok = <<c>>, !.st = "a"]
      [] X.st \in QUOTES ->
           IF c = X.st THEN [X EXCEPT !.quoted = TRUE, !.st = "a"]
           ELSE IF c \in ESCAPE /\ X.st \in ESCAPEDQUOTES
                THEN [X EXCEPT !.quoted = TRUE, !.esc = X.st, !.st = c]
           ELSE [X EXCEPT !.quoted = TRUE, !.tok = Append(@, c)]
      [] X.st \in ESCAPE ->
           [X EXCEPT !.tok = IF X.esc \in QUOTES /\ c # X.st /\ c # X.esc
                             THEN @ \o <<X.st, c>> ELSE Append(@, c),
                     !.st = X.esc]
      [] OTHER ->  \* 'a'
           IF c \in WHITESPACE THEN EmitToken(X)
           ELSE IF c \in QUOTES THEN [X EXCEPT !.st = c]
           ELSE IF c \in ESCAPE THEN [X EXCEPT !.esc = "a", !.st = c]
           ELSE [X EXCEPT !.tok = Append(@, c)]

\* read_token at the end of the text
read_end(X) ==
    IF X.st \in QUOTES THEN Raised(Exception("ValueError", <<"No closing quotation">>))
    ELSE IF X.st \in ESCAPE THEN Raised(Exception("ValueError", <<"No escaped character">>))
    ELSE Returned(EmitToken(X).out)

\* the characters lo..hi of s, read one after the other (the lexer reads
\* nothing more once its state is None, past the end of the text)
RECURSIVE read_chars(_, _, _, _)
read_chars(X, s, lo, hi) ==
    IF lo > hi THEN X
    ELSE IF lo = hi THEN read_char(X, s[lo])
    ELSE LET mid  == (lo + hi) \div 2
             left == read_chars(X, s, lo, mid)
         IN  IF left.st = None THEN left ELSE read_chars(left, s, mid + 1, hi)

shlex_split(s) == read_end(read_chars(LexStart, s, 1, Len(s)))

(***************************************************************************)
(* shlex.quote(s): '' for the empty string, s itself when every character  *)
(* is in [A-Za-z0-9_@%+=:,./-], else s in single quotes with each single   *)
(* quote written '"'"'.                                                    *)
(***************************************************************************)
SafeChars ==
    {"a","b","c","d","e","f","g","h","i","j","k","l","m","n","o","p","q","r","s",
     "t","u","v","w","x","y","z","A","B","C","D","E","F","G","H","I","J","K","L",
     "M","N","O","P","Q","R","S","T","U","V","W","X","Y","Z","0","1","2","3","4",
     "5","6","7","8","9","_","@","%","+","=",":",",",".","/","-"}

find_unsafe(s) == \E k \in 1..Len(s) : s[k] \notin SafeChars

\* s.replace("'", "'\"'\"'")
RECURSIVE replace_quotes(_, _, _)
replace_quotes(s, lo, hi) ==
    IF lo > hi THEN <<>>
    ELSE IF lo = hi THEN (IF s[lo] = SQ THEN <<SQ, DQ, SQ, DQ, SQ>> ELSE <<s[lo]>>)
    ELSE LET mid == (lo + hi) \div 2
         IN  replace_quotes(s, lo, mid) \o replace_quotes(s, mid + 1, hi)

\* single quotes around s, the single quotes of s left as they are
shlex_quote_plain(s) ==
    IF s = <<>> THEN <<SQ, SQ>>
    ELSE IF ~find_unsafe(s) THEN s
    ELSE <<SQ>> \o s \o <<SQ>>

shlex_quote(s) ==
    IF s = <<>> THEN <<SQ, SQ>>
    ELSE IF ~find_unsafe(s) THEN s
    ELSE <<SQ>> \o replace_quotes(s, 1, Len(s)) \o <<SQ>>

\* ' '.join(words)
RECURSIVE join(_)
join(words) ==
    IF words = <<>> THEN <<>>
    ELSE IF Len(words) = 1 THEN Head(words)
    ELSE Head(words) \o <<SP>> \o join(Tail(words))


(***************************************************************************)
(* system_libs.  The toolchains installed on the machine are the           *)
(* environment: `which c` finds a compiler whose toolchain root holds two  *)
(* include directories (/i and "/j k"), `which d` finds one whose root     *)
(* holds none, and `which` fails for every other name (check_output then   *)
(* raises CalledProcessError).                                             *)
(***************************************************************************)
TOOL_C == <<"c">>
TOOL_D == <<"d">>
INCLUDE_I == <<"/", "i">>
INCLUDE_JK == <<"/", "j", " ", "k">>

Value(v) == [raised |-> FALSE, value |-> v]
Raise(e) == [raised |-> TRUE, value |-> e]

\* list(Path(check_output(['which', binary])...).resolve().parent.parent.glob("*/include"))
which_glob(binary) ==
    IF binary = TOOL_C THEN Value(<<INCLUDE_I, INCLUDE_JK>>)
    ELSE IF binary = TOOL_D THEN Value(<<>>)
    ELSE Raise(Exception("CalledProcessError", <<"which">>))

\* the lookup without the try
system_libs_body_unguarded(binary) == which_glob(binary)

\* the body of system_libs: try ... except Exception: return []
system_libs_body(binary) ==
    LET r == which_glob(binary)
    IN  IF r.raised THEN Value(<<>>) ELSE r

\* @lru_cache(maxsize=10)
maxsize == 10

CacheKeys(c) == {c[k].key : k \in 1..Len(c)}
CacheIndex(c, key) == CHOOSE k \in 1..Len(c) : c[k].key = key

\* the entry at k becomes the most recently used one
MoveToEnd(c, k) ==
    SubSeq(c, 1, k - 1) \o SubSeq(c, k + 1, Len(c)) \o <<c[k]>>

\* a new entry; the least recently used one makes room when the cache is full
CacheInsert(c, key, value) ==
    Append(IF Len(c) >= maxsize THEN Tail(c) ELSE c, [key |-> key, value |-> value])

\* system_libs without its decorator
system_libs_uncached(c, binary) ==
    [result |-> system_libs_body(binary), cache |-> c, miss |-> TRUE]

(***************************************************************************)
(* One call system_libs(binary) through the lru_cache wrapper, on cache c  *)
(* (least recently used entry first): the result, the cache afterwards and *)
(* whether the wrapped function ran.  A raising call stores nothing.       *)
(***************************************************************************)
system_libs(c, binary) ==
    IF binary \in CacheKeys(c)
    THEN LET k == CacheIndex(c, binary)
         IN  [result |-> Value(c[k].value), cache |-> MoveToEnd(c, k), miss |-> FALSE]
    ELSE LET r == system_libs_body(binary)
         IN  [result |-> r,
              cache  |-> IF r.raised THEN c ELSE CacheInsert(c, binary, r.value),
              miss   |-> TRUE]

(***************************************************************************)
(* The command of a record, from the token list and the resolver's result. *)
(***************************************************************************)
\* ['-I%s' % s for s in libs]
include_flags(libs) == [i \in 1..Len(libs) |-> <<"-", "I">> \o libs[i]]

\* a test of the token's start instead of the token
IsKeptByPrefix(s) == ~StartsAt(s, 1, NO_THUMB_INTERWORK)

\* [s for s in args if s != '-mno-thumb-interwork']
IsKept(s) == s # NO_THUMB_INTERWORK
kept_args(args) == SelectSeq(args, IsKept)

\* ' '.join(shlex.quote(s) for s in args if s != '-mno-thumb-interwork')
new_cmd(args) ==
    LET kept == kept_args(args)
    IN  join([i \in 1..Len(kept) |-> shlex_quote(kept[i])])


(***************************************************************************)
(* The lines the dry-run build may print, each with its line terminator.   *)
(***************************************************************************)
FileLine(path) == FILE_LIT \o path \o <<DQ>>
CmdLine(text) == CMD_OPEN \o text \o CMD_CLOSE

LineTable ==
    << <<"a", NL>>,                                             \* neither pattern
       FileLine(<<"a">>) \o <<NL>>,                             \* printf "Compiling: a"
       FileLine(<<"b">>) \o <<NL>>,                             \* printf "Compiling: b"
       FileLine(<<>>) \o <<NL>>,                                \* printf "Compiling: "
       FILE_LIT \o <<"a", NL>>,                                 \* printf "Compiling: a
       CmdLine(<<"c", SP, "a", SP>>) \o <<NL>>,                 \* LOG=$(c a &&
       CmdLine(TOOL_D \o <<SP>> \o NO_THUMB_INTERWORK \o <<SP, "a">>) \o <<NL>>,
                                                                \* LOG=$(d -mno-thumb-interwork a&&
       CmdLine(<<"x", SP, SQ, "a", SP, "b", SQ>>) \o <<NL>>,    \* LOG=$(x 'a b'&&
       CmdLine(<<SP>>) \o <<NL>>,                               \* LOG=$( &&
       CmdLine(<<SQ, "c">>) \o <<NL>>,                          \* LOG=$('c&&
       CmdLine(NO_THUMB_INTERWORK \o <<SP>>) \o <<NL>>,         \* LOG=$(-mno-thumb-interwork &&
       FileLine(<<"a">>) \o <<SP>> \o CmdLine(<<"c", SP>>) \o <<NL>>,
                                                                \* printf "Compiling: a" LOG=$(c &&
       CmdLine(<<"c", SP>>) \o <<SP>> \o FileLine(<<"b">>) \o <<NL>>,
                                                                \* LOG=$(c && printf "Compiling: b"
       CMD_OPEN \o CMD_CLOSE \o <<NL>>,                         \* LOG=$(&&
       FileLine(<<"a">>) \o <<SP>> \o CmdLine(<<SP>>) \o <<NL>> >>
                                                                \* printf "Compiling: a" LOG=$( &&

Lines == 1..Len(LineTable)

\* the two patterns on each line of the table
FileMatch == [l \in Lines |-> file_re_search(LineTable[l])]
CmdMatch == [l \in Lines |-> cmd_re_search(LineTable[l])]

\* the lines a process prints are read one at a time; a run reads at most
\* MaxLines of them
MaxLines == 3

\* str(QMK_FIRMWARE.resolve())
QMK_FIRMWARE == "/qmk_firmware"

(***************************************************************************)
(* parse_make_n.  P is the state of one call: the locals state, this_file  *)
(* and records, the exception that ended the call (Nothing while it runs), *)
(* and the resolver's cache with the count of the lookups it made and of   *)
(* the calls it received.  this_file = None is the empty text here, which  *)
(* file_re never captures.                                                 *)
(***************************************************************************)
ParseStart(c, lk, rq) ==
    [state |-> "start", this_file |-> <<>>, records |-> <<>>, exc |-> Nothing,
     cache |-> c, lookups |-> lk, requests |-> rq]

\* a list that takes the new record in front
records_prepend(rs, r) == <<r>> \o rs

\* line 61: records.append(r)
records_append(rs, r) == Append(rs, r)

\* a parser that goes on awaiting a command after a record
state_after_record_cmd == "cmd"

\* line 62: state = 'start'
state_after_record == "start"

\* lines 57-62: the command line matched with group this_cmd
cmd_hit(P, this_cmd) ==
    LET split == shlex_split(this_cmd)
    IN  IF ~split.ok THEN [P EXCEPT !.exc = split.exc]
        ELSE IF split.toks = <<>>
             THEN [P EXCEPT !.exc = Some(Exception("IndexError", <<"list index out of range">>))]
        ELSE LET binary == split.toks[1]
                 call   == system_libs(P.cache, binary)
                 after  == [P EXCEPT !.cache = call.cache,
                                     !.requests = @ (+) SetToBag({binary}),
                                     !.lookups = IF call.miss THEN @ (+) SetToBag({binary})
                                                 ELSE @]
             IN  IF call.result.raised THEN [after EXCEPT !.exc = Some(call.result.value)]
                 ELSE LET args == split.toks \o include_flags(call.result.value)
                      IN  [after EXCEPT
                             !.records = records_append(@,
                                             [directory |-> QMK_FIRMWARE,
                                              command   |-> new_cmd(args),
                                              file      |-> P.this_file]),
                             !.state = state_after_record]

\* a marker that at once emits a record without a command
file_step_partial(P, l) ==
    IF P.state = "start" /\ FileMatch[l].matched
    THEN [P EXCEPT !.this_file = FileMatch[l].group, !.state = "cmd",
                   !.records = Append(@, [directory |-> QMK_FIRMWARE,
                                          command   |-> <<>>,
                                          file      |-> FileMatch[l].group])]
    ELSE P

\* a marker that is taken in either state
file_step_rearm(P, l) ==
    IF FileMatch[l].matched
    THEN [P EXCEPT !.this_file = FileMatch[l].group, !.state = "cmd"]
    ELSE P

\* lines 47-51
file_step(P, l) ==
    IF P.state = "start" /\ FileMatch[l].matched
    THEN [P EXCEPT !.this_file = FileMatch[l].group, !.state = "cmd"]
    ELSE P

\* a command line that is taken in either state
cmd_step_any_state(P, l) ==
    IF CmdMatch[l].matched
    THEN cmd_hit(P, CmdMatch[l].group)
    ELSE P

\* lines 53-62
cmd_step(P, l) ==
    IF P.state = "cmd" /\ CmdMatch[l].matched
    THEN cmd_hit(P, CmdMatch[l].group)
    ELSE P

\* the body of the loop, lines 47-62, for line l of the table
loop_body(P, l) == cmd_step(file_step(P, l), l)

\* the whole call on the lines ls, started with parser state P
RECURSIVE parse_make_n(_, _)
parse_make_n(P, ls) ==
    IF ls = <<>> \/ P.exc # Nothing THEN P
    ELSE parse_make_n(loop_body(P, Head(ls)), Tail(ls))


(***************************************************************************)
(* The state of one process running `qmk compiledb`.                       *)
(***************************************************************************)
VARIABLES
    pc,                 \* where compiledb() is
    current_keyboard,   \* compiledb's locals
    current_keymap,
    command,            \*   (None is the empty argv)
    errors,             \* what cli.log.error and cli.echo printed
    clean_rc,           \* the exit status of `make clean` (it is not looked at)
    events,             \* the processes started, the end of the stream, the write
    read,               \* the lines read from proc.stdout so far
    state,              \* parse_make_n's locals
    this_file,
    records,
    cache,              \* system_libs' lru_cache, least recently used first
    lookups,            \* bag: how often the body of system_libs ran, per name
    requests,           \* bag: how often system_libs was called, per name
    db,                 \* compiledb's local db, once assigned
    res,                \* proc.wait(), once it returned
    exc,                \* the exception that ended the run, if one did
    retval,             \* what compiledb() returned
    dbfile,             \* compile_commands.json, once written
    cmd_pc,             \* the derivation of one command on its own:
    this_cmd,           \*   the captured text,
    libs,               \*   the resolver's result,
    args,               \*   the tokens of the text,
    kept,               \*   the tokens that are written,
    emitted,            \*   the command string of the record
    line,               \* one line searched by cmd_re on its own,
    m,                  \*   and the match, once searched
    proc,               \* the dry-run build as a process of its own:
    stdout,             \*   the lines in its stdout pipe,
    stderr,             \*   the fill of its stderr pipe,
    out_left,           \*   the lines it still has to print,
    err_left            \*   what it still has to write to stderr

vars ==
    <<pc, current_keyboard, current_keymap, command, errors, clean_rc, events,
      read, state, this_file, records, cache, lookups, requests, db, res, exc,
      retval, dbfile, cmd_pc, this_cmd, libs, args, kept, emitted,
      line, m, proc, stdout, stderr, out_left, err_left>>

run_vars ==
    <<pc, current_keyboard, current_keymap, command, errors, clean_rc, events,
      read, state, this_file, records, db, res, exc, retval, dbfile>>

resolver_vars == <<cache, lookups, requests>>

cmd_vars == <<cmd_pc, this_cmd, libs, args, kept, emitted>>

re_vars == <<line, m>>

pipe_vars == <<proc, stdout, stderr, out_left, err_left>>

Init ==
    /\ pc = "entry"
    /\ current_keyboard = None
    /\ current_keymap = None
    /\ command = <<>>
    /\ errors = <<>>
    /\ clean_rc = Nothing
    /\ events = <<>>
    /\ read = <<>>
    /\ state = None
    /\ this_file = <<>>
    /\ records = <<>>
    /\ cache = <<>>
    /\ lookups = EmptyBag
    /\ requests = EmptyBag
    /\ db = Nothing
    /\ res = Nothing
    /\ exc = Nothing
    /\ retval = None
    /\ dbfile = Nothing
    /\ cmd_pc = "idle"
    /\ this_cmd = <<>>
    /\ libs = <<>>
    /\ args = <<>>
    /\ kept = <<>>
    /\ emitted = <<>>
    /\ line = <<>>
    /\ m = Nothing
    /\ proc = None
    /\ stdout = <<>>
    /\ stderr = 0
    /\ out_left = 0
    /\ err_left = 0

(***************************************************************************)
(* compiledb, lines 81-96 and 120-123: the target from the two config      *)
(* domains, the make command when both parts are known, else the errors    *)
(* and the return of False.                                                *)
(***************************************************************************)
\* what a config entry may hold
ConfigValues == {None, "", "kb"}
Truthy(v) == v \notin {None, ""}
\* a or b
Or(a, b) == IF Truthy(a) THEN a ELSE b

\* qmk.commands.create_make_command(keyboard, keymap, dry_run=True): the argv
\* of the dry-run build, make first
create_make_command(keyboard, keymap) == <<"make", "-n", keyboard, keymap>>

\* a test of the keyboard alone
target_resolved_keyboard_only(kb, km) == Truthy(kb)

\* line 87: if current_keyboard and current_keymap
target_resolved(kb, km) == Truthy(kb) /\ Truthy(km)

ResolveTarget ==
    /\ pc = "entry"
    /\ \E ckb \in ConfigValues, bkb \in ConfigValues,
          ckm \in ConfigValues, bkm \in ConfigValues :
         LET kb == Or(ckb, bkb)
             km == Or(ckm, bkm)
             first == IF target_resolved(kb, km) THEN <<>>
                      ELSE IF ~Truthy(kb) THEN <<"Could not determine keyboard!">>
                      ELSE <<"Could not determine keymap!">>
         IN  /\ current_keyboard' = kb
             /\ current_keymap' = km
             /\ IF target_resolved(kb, km)
                THEN /\ command' = create_make_command(kb, km)
                     /\ pc' = "clean"
                     /\ errors' = first
                     /\ retval' = retval
                ELSE /\ command' = <<>>
                     /\ pc' = "returned"
                     /\ errors' = first \o
                           <<"You must supply both --keyboard and --keymap",
                             "usage: qmk compiledb [-kb KEYBOARD] [-km KEYMAP]">>
                     /\ retval' = "False"
    /\ UNCHANGED <<clean_rc, events, read, state, this_file, records, db, res, exc, dbfile>>
    /\ UNCHANGED resolver_vars
    /\ UNCHANGED cmd_vars
    /\ UNCHANGED re_vars
    /\ UNCHANGED pipe_vars

\* the exit statuses a process may end with
ExitStatus == {0, 2}

\* a clean whose failure ends the run
MakeCleanChecked ==
    /\ pc = "clean"
    /\ \E rc \in ExitStatus :
         /\ clean_rc' = Some(rc)
         /\ IF rc # 0
            THEN /\ exc' = Some(Exception("CalledProcessError", <<command[1], "clean">>))
                 /\ pc' = "raised"
            ELSE /\ exc' = exc
                 /\ pc' = "popen"
    /\ events' = Append(events, <<command[1], "clean">>)
    /\ UNCHANGED <<current_keyboard, current_keymap, command, errors, read, state,
                   this_file, records, db, res, retval, dbfile>>
    /\ UNCHANGED <<cache, lookups, requests>>
    /\ UNCHANGED <<cmd_pc, this_cmd, libs, args, kept, emitted>>
    /\ UNCHANGED <<line, m>>
    /\ UNCHANGED <<proc, stdout, stderr, out_left, err_left>>

\* lines 98-104: subprocess.run([command[0], 'clean'], ...), waited for, its
\* status dropped
MakeClean ==
    /\ pc = "clean"
    /\ \E rc \in ExitStatus : clean_rc' = Some(rc)
    /\ events' = Append(events, <<command[1], "clean">>)
    /\ pc' = "popen"
    /\ UNCHANGED <<current_keyboard, current_keymap, command, errors, read, state,
                   this_file, records, db, res, exc, retval, dbfile>>
    /\ UNCHANGED resolver_vars
    /\ UNCHANGED cmd_vars
    /\ UNCHANGED re_vars
    /\ UNCHANGED pipe_vars

\* lines 106-108: Popen(command, ...) and the entry of parse_make_n (43-45)
StartBuild ==
    /\ pc = "popen"
    /\ events' = Append(events, command)
    /\ state' = "start"
    /\ this_file' = <<>>
    /\ records' = <<>>
    /\ pc' = "parse"
    /\ UNCHANGED <<current_keyboard, current_keymap, command, errors, clean_rc, read,
                   db, res, exc, retval, dbfile>>
    /\ UNCHANGED resolver_vars
    /\ UNCHANGED cmd_vars
    /\ UNCHANGED re_vars
    /\ UNCHANGED pipe_vars

\* the state of the running parse_make_n
Parser ==
    [state |-> state, this_file |-> this_file, records |-> records, exc |-> Nothing,
     cache |-> cache, lookups |-> lookups, requests |-> requests]

\* lines 46-62: one iteration of `for line in f`, on the next line the build
\* prints; an exception leaves parse_make_n and compiledb
ParseLine ==
    /\ pc = "parse"
    /\ Len(read) < MaxLines
    /\ \E l \in Lines :
         LET P == loop_body(Parser, l)
         IN  /\ read' = Append(read, l)
             /\ state' = P.state
             /\ this_file' = P.this_file
             /\ records' = P.records
             /\ cache' = P.cache
             /\ lookups' = P.lookups
             /\ requests' = P.requests
             /\ exc' = P.exc
             /\ pc' = IF P.exc # Nothing THEN "raised" ELSE "parse"
    /\ UNCHANGED <<current_keyboard, current_keymap, command, errors, clean_rc, events,
                   db, res, retval, dbfile>>
    /\ UNCHANGED cmd_vars
    /\ UNCHANGED re_vars
    /\ UNCHANGED pipe_vars

\* line 64 and the assignment of line 108: the stream ended
EndOfStream ==
    /\ pc = "parse"
    /\ db' = Some(records)
    /\ events' = Append(events, <<"eof">>)
    /\ pc' = "wait"
    /\ UNCHANGED <<current_keyboard, current_keymap, command, errors, clean_rc, read,
                   state, this_file, records, res, exc, retval, dbfile>>
    /\ UNCHANGED resolver_vars
    /\ UNCHANGED cmd_vars
    /\ UNCHANGED re_vars
    /\ UNCHANGED pipe_vars

\* a wait that does not look at the status
WaitUnchecked ==
    /\ pc = "wait"
    /\ \E rc \in ExitStatus : res' = Some(rc)
    /\ pc' = "write"
    /\ events' = Append(events, <<"wait">>)
    /\ UNCHANGED <<current_keyboard, current_keymap, command, errors, clean_rc, read,
                   state, this_file, records, db, exc, retval, dbfile>>
    /\ UNCHANGED <<cache, lookups, requests>>
    /\ UNCHANGED <<cmd_pc, this_cmd, libs, args, kept, emitted>>
    /\ UNCHANGED <<line, m>>
    /\ UNCHANGED <<proc, stdout, stderr, out_left, err_left>>

\* lines 109-111: res = proc.wait(); a status other than 0 raises RuntimeError
\* with the command in its message
Wait ==
    /\ pc = "wait"
    /\ \E rc \in ExitStatus :
         /\ res' = Some(rc)
         /\ IF rc # 0
            THEN /\ exc' = Some(Exception("RuntimeError", <<"Got error from">> \o command))
                 /\ pc' = "raised"
            ELSE /\ exc' = exc
                 /\ pc' = "write"
    /\ events' = Append(events, <<"wait">>)
    /\ UNCHANGED <<current_keyboard, current_keymap, command, errors, clean_rc, read,
                   state, this_file, records, db, retval, dbfile>>
    /\ UNCHANGED resolver_vars
    /\ UNCHANGED cmd_vars
    /\ UNCHANGED re_vars
    /\ UNCHANGED pipe_vars

\* lines 113-118: dbpath.write_text(json.dumps(db, indent=4)); compiledb then
\* returns (None)
WriteDatabase ==
    /\ pc = "write"
    /\ dbfile' = db
    /\ events' = Append(events, <<"write">>)
    /\ pc' = "returned"
    /\ UNCHANGED <<current_keyboard, current_keymap, command, errors, clean_rc, read,
                   state, this_file, records, db, res, exc, retval>>
    /\ UNCHANGED resolver_vars
    /\ UNCHANGED cmd_vars
    /\ UNCHANGED re_vars
    /\ UNCHANGED pipe_vars

Next ==
    \/ ResolveTarget
    \/ MakeClean
    \/ StartBuild
    \/ ParseLine
    \/ EndOfStream
    \/ Wait
    \/ WriteDatabase

Spec == Init /\ [][Next]_vars


(***************************************************************************)
(* The derivation of a record's command (lines 57-60) on its own: any      *)
(* captured text of up to MaxCmdLen pieces, any result of the resolver.    *)
(***************************************************************************)
MaxCmdLen == 5

CmdPieces == {<<"c">>, <<SP>>, <<SQ>>, <<DQ>>, <<BS>>, NO_THUMB_INTERWORK}

\* the group of cmd_re is never empty
CmdTexts ==
    {Flatten(ps) : ps \in UNION {[1..n -> CmdPieces] : n \in 1..MaxCmdLen}}

LibsChoices ==
    {<<>>, <<INCLUDE_I>>, <<INCLUDE_I, INCLUDE_JK>>, << <<"/", SQ>>, <<"/", BS>> >>}

InitCmd ==
    /\ pc = "entry"
    /\ current_keyboard = None
    /\ current_keymap = None
    /\ command = <<>>
    /\ errors = <<>>
    /\ clean_rc = Nothing
    /\ events = <<>>
    /\ read = <<>>
    /\ state = None
    /\ this_file = <<>>
    /\ records = <<>>
    /\ cache = <<>>
    /\ lookups = EmptyBag
    /\ requests = EmptyBag
    /\ db = Nothing
    /\ res = Nothing
    /\ exc = Nothing
    /\ retval = None
    /\ dbfile = Nothing
    /\ cmd_pc = "captured"
    /\ this_cmd \in CmdTexts
    /\ libs = <<>>
    /\ args = <<>>
    /\ kept = <<>>
    /\ emitted = <<>>
    /\ line = <<>>
    /\ m = Nothing
    /\ proc = None
    /\ stdout = <<>>
    /\ stderr = 0
    /\ out_left = 0
    /\ err_left = 0

\* lines 58-60, with d what system_libs(args[0]) returns
DeriveCommand ==
    /\ cmd_pc = "captured"
    /\ LET split == shlex_split(this_cmd)
       IN  IF ~split.ok \/ split.toks = <<>>
           THEN /\ cmd_pc' = "raised"
                /\ UNCHANGED <<libs, args, kept, emitted>>
           ELSE \E d \in LibsChoices :
                  /\ libs' = d
                  /\ args' = split.toks
                  /\ kept' = kept_args(split.toks \o include_flags(d))
                  /\ emitted' = new_cmd(split.toks \o include_flags(d))
                  /\ cmd_pc' = "derived"
    /\ UNCHANGED this_cmd
    /\ UNCHANGED run_vars
    /\ UNCHANGED resolver_vars
    /\ UNCHANGED re_vars
    /\ UNCHANGED pipe_vars

NextCmd == DeriveCommand

SpecCmd == InitCmd /\ [][NextCmd]_vars

(***************************************************************************)
(* system_libs on its own: calls for NumTools names.  A name is first      *)
(* called after all names before it; the first HotTools names are called   *)
(* again at any time, each name at most MaxRequests times.                 *)
(***************************************************************************)
NumTools == 11
HotTools == 2
MaxRequests == 3

\* c is installed, the other names are not
ToolName(k) == IF k = 1 THEN TOOL_C ELSE [i \in 1..k |-> "x"]

Requested == BagToSet(requests)

CallSystemLibs ==
    /\ \E k \in 1..NumTools :
         /\ k <= Cardinality(Requested) + 1
         /\ k <= HotTools \/ k = Cardinality(Requested) + 1
         /\ CopiesIn(ToolName(k), requests) < MaxRequests
         /\ LET call == system_libs(cache, ToolName(k))
            IN  /\ cache' = call.cache
                /\ requests' = requests (+) SetToBag({ToolName(k)})
                /\ lookups' = IF call.miss THEN lookups (+) SetToBag({ToolName(k)})
                              ELSE lookups
    /\ UNCHANGED run_vars
    /\ UNCHANGED cmd_vars
    /\ UNCHANGED re_vars
    /\ UNCHANGED pipe_vars

NextLibs == CallSystemLibs

SpecLibs == Init /\ [][NextLibs]_vars


(***************************************************************************)
(* cmd_re on its own (lines 54-57): any line of up to MaxLineLen pieces    *)
(* with its line terminator, searched once.                                *)
(***************************************************************************)
MaxLineLen == 5

LinePieces == {CMD_OPEN, <<"&">>, <<"c">>, <<SP>>}

LineTexts ==
    {Flatten(ps) \o <<NL>> : ps \in UNION {[1..n -> LinePieces] : n \in 1..MaxLineLen}}

InitLine ==
    /\ pc = "entry"
    /\ current_keyboard = None
    /\ current_keymap = None
    /\ command = <<>>
    /\ errors = <<>>
    /\ clean_rc = Nothing
    /\ events = <<>>
    /\ read = <<>>
    /\ state = None
    /\ this_file = <<>>
    /\ records = <<>>
    /\ cache = <<>>
    /\ lookups = EmptyBag
    /\ requests = EmptyBag
    /\ db = Nothing
    /\ res = Nothing
    /\ exc = Nothing
    /\ retval = None
    /\ dbfile = Nothing
    /\ cmd_pc = "line"
    /\ this_cmd = <<>>
    /\ libs = <<>>
    /\ args = <<>>
    /\ kept = <<>>
    /\ emitted = <<>>
    /\ line \in LineTexts
    /\ m = Nothing
    /\ proc = None
    /\ stdout = <<>>
    /\ stderr = 0
    /\ out_left = 0
    /\ err_left = 0

\* lines 54-57: m = cmd_re.search(line); this_cmd = m.group(1) on a match
SearchLine ==
    /\ cmd_pc = "line"
    /\ m' = Some(cmd_re_search(line))
    /\ this_cmd' = IF cmd_re_search(line).matched THEN cmd_re_search(line).group
                   ELSE this_cmd
    /\ cmd_pc' = "searched"
    /\ UNCHANGED <<line, libs, args, kept, emitted>>
    /\ UNCHANGED run_vars
    /\ UNCHANGED resolver_vars
    /\ UNCHANGED pipe_vars

NextLine == SearchLine

SpecLine == InitLine /\ [][NextLine]_vars

(***************************************************************************)
(* compiledb with the dry-run build as a process of its own (lines         *)
(* 107-109): Popen gives it a stdout pipe and a stderr pipe, each of a     *)
(* bounded size.  The build writes its lines to stdout and its messages to *)
(* stderr in any order, waits while the pipe it writes to is full, and     *)
(* exits, closing both, once it has written everything.  compiledb reads   *)
(* stdout line by line until it is closed and empty, then waits for the    *)
(* exit; nothing reads stderr.                                             *)
(***************************************************************************)
StdoutCap == 1
StderrCap == 1
MaxOut == 2
MaxErr == 2

\* line 107: Popen(command, stdout=PIPE, stderr=PIPE, ...), and the entry of
\* parse_make_n (43-45)
StartBuildPiped ==
    /\ pc = "popen"
    /\ events' = Append(events, command)
    /\ state' = "start"
    /\ this_file' = <<>>
    /\ records' = <<>>
    /\ pc' = "parse"
    /\ proc' = "running"
    /\ stdout' = <<>>
    /\ stderr' = 0
    /\ \E o \in 0..MaxOut, e \in 0..MaxErr : out_left' = o /\ err_left' = e
    /\ UNCHANGED <<current_keyboard, current_keymap, command, errors, clean_rc, read,
                   db, res, exc, retval, dbfile>>
    /\ UNCHANGED resolver_vars
    /\ UNCHANGED cmd_vars
    /\ UNCHANGED re_vars

\* the build prints a line: it does when the stdout pipe has room
BuildWriteStdout ==
    /\ proc = "running"
    /\ out_left > 0
    /\ Len(stdout) < StdoutCap
    /\ \E l \in Lines : stdout' = Append(stdout, l)
    /\ out_left' = out_left - 1
    /\ UNCHANGED <<proc, stderr, err_left>>
    /\ UNCHANGED run_vars
    /\ UNCHANGED resolver_vars
    /\ UNCHANGED cmd_vars
    /\ UNCHANGED re_vars

\* the build writes to stderr: it does when the stderr pipe has room
BuildWriteStderr ==
    /\ proc = "running"
    /\ err_left > 0
    /\ stderr < StderrCap
    /\ stderr' = stderr + 1
    /\ err_left' = err_left - 1
    /\ UNCHANGED <<proc, stdout, out_left>>
    /\ UNCHANGED run_vars
    /\ UNCHANGED resolver_vars
    /\ UNCHANGED cmd_vars
    /\ UNCHANGED re_vars

\* the build has written everything and exits; its ends of the pipes close
BuildExit ==
    /\ proc = "running"
    /\ out_left = 0
    /\ err_left = 0
    /\ proc' = "exited"
    /\ UNCHANGED <<stdout, stderr, out_left, err_left>>
    /\ UNCHANGED run_vars
    /\ UNCHANGED resolver_vars
    /\ UNCHANGED cmd_vars
    /\ UNCHANGED re_vars

\* lines 46-62: one iteration of `for line in f` on the next line of the pipe
ReadLine ==
    /\ pc = "parse"
    /\ stdout # <<>>
    /\ LET P == loop_body(Parser, Head(stdout))
       IN  /\ read' = Append(read, Head(stdout))
           /\ stdout' = Tail(stdout)
           /\ state' = P.state
           /\ this_file' = P.this_file
           /\ records' = P.records
           /\ cache' = P.cache
           /\ lookups' = P.lookups
           /\ requests' = P.requests
           /\ exc' = P.exc
           /\ pc' = IF P.exc # Nothing THEN "raised" ELSE "parse"
    /\ UNCHANGED <<current_keyboard, current_keymap, command, errors, clean_rc, events,
                   db, res, retval, dbfile>>
    /\ UNCHANGED <<proc, stderr, out_left, err_left>>
    /\ UNCHANGED cmd_vars
    /\ UNCHANGED re_vars

\* line 64: the pipe is empty and closed, `for line in f` ends
ReadEndOfStream ==
    /\ stdout = <<>>
    /\ proc = "exited"
    /\ EndOfStream

\* lines 109-111: proc.wait() returns once the build has exited
WaitExited ==
    /\ proc = "exited"
    /\ Wait

\* the steps of compiledb and the steps of the build
Caller ==
    \/ ResolveTarget
    \/ MakeClean
    \/ StartBuildPiped
    \/ ReadLine
    \/ ReadEndOfStream
    \/ WaitExited
    \/ WriteDatabase

Build ==
    \/ BuildWriteStdout
    \/ BuildWriteStderr
    \/ BuildExit

NextPipe == Caller \/ Build

SpecPipe == Init /\ [][NextPipe]_vars

(***************************************************************************)
(* Properties.                                                             *)
(***************************************************************************)
IsFileLine(l) == FileMatch[l].matched
IsCmdLine(l) == CmdMatch[l].matched

\* parse_make_n ended by an exception (compiledb never reached proc.wait())
ParserRaised == pc = "raised" /\ res = Nothing
\* parse_make_n returned
ParserReturned == db # Nothing

\* a call of parse_make_n in a fresh process
Fresh == ParseStart(<<>>, EmptyBag, EmptyBag)

Outcome(P) == [exc |-> P.exc, returned |-> IF P.exc # Nothing THEN Nothing ELSE Some(P.records)]
RunOutcome == [exc |-> IF ParserRaised THEN exc ELSE Nothing, returned |-> db]

RemoveAt(ls, p) == SubSeq(ls, 1, p - 1) \o SubSeq(ls, p + 1, Len(ls))

\* the j-th smallest element of a set of numbers
NthOf(S, j) == CHOOSE p \in S : Cardinality({q \in S : q <= p}) = j

Markers(ls) == {p \in 1..Len(ls) : IsFileLine(ls[p])}
NextMarker(ls, p) == Min({q \in Markers(ls) : q > p} \cup {Len(ls) + 1})
CmdsAfter(ls, p) == {q \in (p + 1)..(NextMarker(ls, p) - 1) : IsCmdLine(ls[q])}

\* N marker lines, each followed by exactly one command line before the next
\* marker; marker and command are on lines of their own
WellFormed(ls) ==
    \A p \in Markers(ls) : ~IsCmdLine(ls[p]) /\ Cardinality(CmdsAfter(ls, p)) = 1

\* the command derived from a captured text
DerivedCommand(text) ==
    LET toks == shlex_split(text).toks
    IN  new_cmd(toks \o include_flags(system_libs_body(toks[1]).value))

(* C1: for every stream of N marker lines, each followed (possibly after   *)
(* lines matching neither pattern) by exactly one command line before the  *)
(* next marker, parse_make_n returns exactly N records, the i-th with the  *)
(* i-th marker's file and the command derived from the i-th command line.  *)
C1_RoundTripPairing ==
    (ParserRaised \/ ParserReturned) /\ WellFormed(read) =>
        /\ ~ParserRaised
        /\ Len(db[1]) = Cardinality(Markers(read))
        /\ \A i \in 1..Len(db[1]) :
             LET p == NthOf(Markers(read), i)
                 q == NthOf(CmdsAfter(read, p), 1)
             IN  /\ db[1][i].file = FileMatch[read[p]].group
                 /\ db[1][i].command = DerivedCommand(CmdMatch[read[q]].group)

(* C7: every record of the list has a non-empty file and a non-empty       *)
(* command, and there are no more records than marker lines and than       *)
(* command lines read: a record is appended only when both were captured.  *)
C7_RecordInvariant ==
    /\ \A i \in 1..Len(records) :
         records[i].file # <<>> /\ records[i].command # <<>>
    /\ Len(records) <= Cardinality(Markers(read))
    /\ Len(records) <= Cardinality({q \in 1..Len(read) : IsCmdLine(read[q])})

(* C8: whatever the lines hold, parse_make_n raises no error.              *)
C8_NoErrorFromParser == ~ParserRaised



\* the places of the tokens of a that are not the stripped flag
OtherTokens(a) == {i \in 1..Len(a) : a[i] # NO_THUMB_INTERWORK}

(* C2: the tokens of the emitted command are the captured tokens followed  *)
(* by one -I<dir> per directory of the resolver's result, in its order,    *)
(* without the tokens equal to -mno-thumb-interwork: that token is never   *)
(* in the command and the others keep their order.                         *)
C2_FlagStripping ==
    cmd_pc = "derived" =>
        LET a   == args \o [i \in 1..Len(libs) |-> <<"-", "I">> \o libs[i]]
            out == shlex_split(emitted)
        IN  /\ out.ok
            /\ \A j \in 1..Len(out.toks) : out.toks[j] # NO_THUMB_INTERWORK
            /\ Len(out.toks) = Cardinality(OtherTokens(a))
            /\ \A j \in 1..Len(out.toks) : out.toks[j] = a[NthOf(OtherTokens(a), j)]

\* the flag between two other tokens, and two include directories
C2_Witness ==
    /\ cmd_pc = "derived"
    /\ Len(libs) = 2
    /\ Len(args) = 3
    /\ args[1] # NO_THUMB_INTERWORK
    /\ args[2] = NO_THUMB_INTERWORK
    /\ args[3] # NO_THUMB_INTERWORK

\* split(' '.join(quote(t) for t in ts)) = ts
RoundTrip(ts) ==
    shlex_split(join([i \in 1..Len(ts) |-> shlex_quote(ts[i])])) = Returned(ts)

(* C3: splitting the command of a record gives back the tokens it was      *)
(* made of, the captured tokens and the -I tokens without the stripped     *)
(* flag; quoting and joining any of these token lists and splitting the    *)
(* result gives the list back.                                             *)
C3_QuotingReversible ==
    cmd_pc = "derived" =>
        /\ shlex_split(emitted) = Returned(kept)
        /\ RoundTrip(kept)
        /\ RoundTrip(args)
        /\ RoundTrip(args \o include_flags(libs))

\* tokens that need quoting: a quote, a space or a backslash inside, and an
\* empty token
C3_Witness ==
    /\ cmd_pc = "derived"
    /\ \E i \in 1..Len(kept) : \E k \in 1..Len(kept[i]) : kept[i][k] = SQ
    /\ \E i \in 1..Len(kept) : \E k \in 1..Len(kept[i]) : kept[i][k] \in {SP, BS, DQ}
    /\ \E i \in 1..Len(args) : args[i] = <<>>

(* C4 as stated: whatever names are asked for, in any order, the lookup    *)
(* runs at most once per name.                                             *)
C4_MemoizationAsStated ==
    \A n \in Requested : CopiesIn(n, lookups) <= 1

(* C4, amended: as long as no more than 10 distinct names (the size of the *)
(* cache) have been asked for, the lookup has run exactly once for each    *)
(* name asked for, also for a name whose lookup failed.                    *)
C4_Memoization ==
    Cardinality(Requested) <= maxsize =>
        /\ \A n \in Requested : CopiesIn(n, lookups) = 1
        /\ CacheKeys(cache) = Requested

\* ten names asked for, a name that is not installed among them more than once
C4_Witness ==
    /\ Cardinality(Requested) = maxsize
    /\ \E n \in Requested :
         /\ which_glob(n).raised
         /\ CopiesIn(n, requests) > 1
         /\ CopiesIn(n, lookups) = 1

\* a marker line after which no command line comes
Dangling(ls, p) ==
    IsFileLine(ls[p]) /\ \A q \in (p + 1)..Len(ls) : ~IsCmdLine(ls[q])

\* the call on ls ends as the call on ls without line p does, and as the call
\* on the lines before p does: the marker at p yields no record
DroppedAt(ls, p) ==
    /\ RunOutcome = Outcome(parse_make_n(Fresh, RemoveAt(ls, p)))
    /\ RunOutcome = Outcome(parse_make_n(Fresh, SubSeq(ls, 1, p - 1)))

C6_AllOrNothing ==
    /\ dbfile # Nothing => res = Some(0) /\ dbfile = db
    /\ res # Nothing /\ res # Some(0) =>
         /\ pc = "raised"
         /\ exc = Some(Exception("RuntimeError", <<"Got error from">> \o command))
         /\ dbfile = Nothing

\* a build that printed a complete record and then failed
C6_Witness ==
    /\ res = Some(2)
    /\ pc = "raised"
    /\ db # Nothing
    /\ Len(db[1]) > 0
    /\ dbfile = Nothing

\* the parser before the last line read
BeforeLast == parse_make_n(Fresh, SubSeq(read, 1, Len(read) - 1))

\* the last line read was taken as a command whose executable cannot be looked up
FailedLookupAtLast ==
    /\ read # <<>>
    /\ BeforeLast.exc = Nothing
    /\ LET l == read[Len(read)]
       IN  /\ file_step(BeforeLast, l).state = "cmd"
           /\ IsCmdLine(l)
           /\ shlex_split(CmdMatch[l].group).ok
           /\ shlex_split(CmdMatch[l].group).toks # <<>>
           /\ which_glob(shlex_split(CmdMatch[l].group).toks[1]).raised

(* C9: a lookup that fails makes system_libs return the empty list and     *)
(* raise nothing: the list is cached as empty, the record of that command  *)
(* line is appended with no -I flag, and no run ends in the lookup's       *)
(* exception.                                                              *)
C9_ResolverErrorPolicy ==
    /\ \A k \in 1..Len(cache) : which_glob(cache[k].key).raised => cache[k].value = <<>>
    /\ exc # Nothing => exc[1].type \in {"ValueError", "IndexError", "RuntimeError"}
    /\ pc \in {"parse", "raised"} /\ res = Nothing /\ FailedLookupAtLast =>
         LET l == read[Len(read)]
             P == file_step(BeforeLast, l)
         IN  /\ pc = "parse"
             /\ records = Append(BeforeLast.records,
                                 [directory |-> QMK_FIRMWARE,
                                  command   |-> new_cmd(shlex_split(CmdMatch[l].group).toks),
                                  file      |-> P.this_file])

\* a record was appended for a command whose executable is not installed
C9_Witness ==
    /\ pc = "parse"
    /\ FailedLookupAtLast
    /\ Len(records) = 1
    /\ cache # <<>>

(* C10: when the keyboard or the keymap is not known, compiledb logs the    *)
(* configuration error and returns False; no process was started, nothing  *)
(* was written and no exception ended the run.                             *)
C10_MissingTarget ==
    pc # "entry" /\ (~Truthy(current_keyboard) \/ ~Truthy(current_keymap)) =>
        /\ pc = "returned"
        /\ retval = "False"
        /\ errors # <<>>
        /\ errors[1] = (IF ~Truthy(current_keyboard)
                        THEN "Could not determine keyboard!"
                        ELSE "Could not determine keymap!")
        /\ events = <<>>
        /\ read = <<>>
        /\ dbfile = Nothing
        /\ exc = Nothing

\* the keyboard is known and the keymap is not
C10_Witness ==
    /\ pc = "returned"
    /\ retval = "False"
    /\ Truthy(current_keyboard)
    /\ ~Truthy(current_keymap)

\* the paths of the marker lines of a stream, in the order of the lines
MarkerPaths(ls) ==
    [j \in 1..Cardinality(Markers(ls)) |-> FileMatch[ls[NthOf(Markers(ls), j)]].group]

\* the file fields of a list of records
Files(rs) == [i \in 1..Len(rs) |-> rs[i].file]

\* a is b with some elements left out
IsSubsequence(a, b) ==
    \E f \in [1..Len(a) -> 1..Len(b)] :
        /\ \A i \in 1..Len(a) : a[i] = b[f[i]]
        /\ \A i \in 1..(Len(a) - 1) : f[i] < f[i + 1]

(* C11: whatever the lines hold, the file fields of the records are, in    *)
(* order, a subsequence of the paths of the marker lines read; the list    *)
(* returned is the list as it stood at the end of the stream; and a step   *)
(* changes the list only by appending one record at its end.               *)
C11_OutputOrder ==
    /\ [](/\ IsSubsequence(Files(records), MarkerPaths(read))
          /\ (db # Nothing => db[1] = records))
    /\ [][\/ records' = records
          \/ /\ Len(records') = Len(records) + 1
             /\ SubSeq(records', 1, Len(records)) = records]_vars

\* two records of different files were returned
C11_Witness ==
    /\ ParserReturned
    /\ Len(db[1]) = 2
    /\ db[1][1].file # db[1][2].file

Max(S) == CHOOSE x \in S : \A y \in S : x >= y

\* the parser after each line of a stream, read by a fresh call: the n-th
\* element is the state after line n
RECURSIVE Trace(_, _)
Trace(P, ls) ==
    IF ls = <<>> THEN <<>>
    ELSE LET Q == parse_make_n(P, <<Head(ls)>>)
         IN  <<Q>> \o Trace(Q, Tail(ls))

\* the number of records after the first n lines
RecordsAfter(t, n) == IF n = 0 THEN 0 ELSE Len(t[n].records)

\* the last line that completed a record, 0 when none did
LastCompleted(t) ==
    Max({0} \cup {n \in 1..Len(t) : RecordsAfter(t, n) > RecordsAfter(t, n - 1)})

\* the first marker line after the last record
PendingMarker(ls, t) == Min({p \in Markers(ls) : p > LastCompleted(t)})

\* the line a step of the loop has read
LineRead == read'[Len(read')]

(* C12: while the parser awaits a command, the captured file is the path   *)
(* of the first marker line read since the last record; a marker line      *)
(* read then (one that is no command line) leaves the state, the file and  *)
(* the list as they are; and the record a command line then appends        *)
(* carries that captured file.                                             *)
C12_NoRearm ==
    /\ [](state = "cmd" =>
            \A t \in {Trace(Fresh, read)} :
                this_file = FileMatch[read[PendingMarker(read, t)]].group)
    /\ [][pc = "parse" /\ state = "cmd" /\ read' # read =>
            /\ IsFileLine(LineRead) /\ ~IsCmdLine(LineRead) =>
                  state' = "cmd" /\ this_file' = this_file /\ records' = records
            /\ records' # records =>
                  /\ Len(records') = Len(records) + 1
                  /\ SubSeq(records', 1, Len(records)) = records
                  /\ records'[Len(records')].file = this_file
                  /\ this_file' = this_file]_vars

\* marker a, marker b, command: one record, of a
C12_Witness ==
    /\ Len(read) = 3
    /\ IsFileLine(read[1]) /\ ~IsCmdLine(read[1])
    /\ IsFileLine(read[2]) /\ ~IsCmdLine(read[2])
    /\ FileMatch[read[1]].group # FileMatch[read[2]].group
    /\ IsCmdLine(read[3])
    /\ Len(records) = 1
    /\ records[1].file = FileMatch[read[1]].group

(* C13: a line read in awaiting-file that holds no marker, a command line  *)
(* included, leaves the state, the captured file and the list unchanged;   *)
(* a line read in awaiting-command that holds no command pattern leaves    *)
(* the state awaiting-command and the captured file and the list           *)
(* unchanged.  Neither ends the call.                                      *)
C13_NonMatchingLines ==
    [][pc = "parse" /\ read' # read =>
          /\ state = "start" /\ ~IsFileLine(LineRead) =>
                /\ state' = "start"
                /\ this_file' = this_file
                /\ records' = records
                /\ pc' = "parse"
          /\ state = "cmd" /\ ~IsCmdLine(LineRead) =>
                /\ state' = "cmd"
                /\ this_file' = this_file
                /\ records' = records
                /\ pc' = "parse"]_vars

\* a command line read in awaiting-file, then a marker, then a line of
\* neither pattern read in awaiting-command
C13_Witness ==
    /\ Len(read) = 3
    /\ IsCmdLine(read[1]) /\ ~IsFileLine(read[1])
    /\ IsFileLine(read[2]) /\ ~IsCmdLine(read[2])
    /\ ~IsCmdLine(read[3]) /\ ~IsFileLine(read[3])
    /\ state = "cmd"
    /\ this_file = FileMatch[read[2]].group
    /\ records = <<>>

\* the line that completed the i-th record
CompletedAt(t, i) == Min({n \in 1..Len(t) : RecordsAfter(t, n) >= i})

\* the state in which line p was read
StateBefore(t, p) == IF p = 1 THEN "start" ELSE t[p - 1].state

CommandLines(ls) == {q \in 1..Len(ls) : IsCmdLine(ls[q])}

(* C14: a step that appends a record leaves the parser in awaiting-file;   *)
(* when it appends a record after another, a marker line was read in       *)
(* awaiting-file after the line that completed the other (the line of the  *)
(* step included); and at every point there are no more records than       *)
(* marker lines read and no more than command lines read.                  *)
C14_ResetAfterRecord ==
    /\ [][records' # records =>
            /\ state' = "start"
            /\ records # <<>> =>
                  \A t \in {Trace(Fresh, read')} :
                      \E p \in Markers(read') :
                          /\ CompletedAt(t, Len(records)) < p
                          /\ CompletedAt(t, Len(records')) = Len(read')
                          /\ StateBefore(t, p) = "start"]_vars
    /\ [](/\ Len(records) <= Cardinality(Markers(read))
          /\ Len(records) <= Cardinality(CommandLines(read)))

\* two records from two markers and two command lines on three lines
C14_Witness ==
    /\ Len(read) = 3
    /\ Len(records) = 2
    /\ state = "start"
    /\ Cardinality(Markers(read)) = 2
    /\ Cardinality(CommandLines(read)) = 2

\* where the opener starts on a line, and where && starts at or after k
Openers(s) == {i \in 1..Len(s) : StartsAt(s, i, CMD_OPEN)}
ClosersFrom(s, k) == {j \in k..Len(s) : StartsAt(s, j, CMD_CLOSE)}

\* the first character after the first opener of a line
AfterOpener(s) == Min(Openers(s)) + Len(CMD_OPEN)

(* C15 as stated: on every line that holds the opener with && somewhere    *)
(* after it, also right after it, the pattern matches and the captured     *)
(* text is what stands between the first opener and the first && after it. *)
C15_CaptureBoundaryAsStated ==
    cmd_pc = "searched" /\ Openers(line) # {}
                        /\ ClosersFrom(line, AfterOpener(line)) # {} =>
        /\ m[1].matched
        /\ m[1].group = SubSeq(line, AfterOpener(line),
                               Min(ClosersFrom(line, AfterOpener(line))) - 1)

(* C15, amended: the pattern matches exactly the lines that hold the       *)
(* opener with an && that starts at least one character after it; the      *)
(* captured text then runs from the first opener to the first such &&, so  *)
(* it is never empty, and an && right after the opener is part of it.      *)
C15_CaptureBoundary ==
    cmd_pc = "searched" =>
        IF Openers(line) # {} /\ ClosersFrom(line, AfterOpener(line) + 1) # {}
        THEN /\ m[1].matched
             /\ m[1].group = SubSeq(line, AfterOpener(line),
                                    Min(ClosersFrom(line, AfterOpener(line) + 1)) - 1)
             /\ m[1].group # <<>>
             /\ this_cmd = m[1].group
        ELSE ~m[1].matched

\* && right after the first opener, and a match all the same
C15_Witness ==
    /\ cmd_pc = "searched"
    /\ Openers(line) # {}
    /\ StartsAt(line, AfterOpener(line), CMD_CLOSE)
    /\ m[1].matched
    /\ m[1].group = <<"&">>

IsPrefix(a, b) == Len(a) <= Len(b) /\ SubSeq(b, 1, Len(a)) = a

\* the clean, the dry-run build, the end of its output, the collection of
\* its exit status, the write
Orchestration ==
    << <<command[1], "clean">>, command, <<"eof">>, <<"wait">>, <<"write">> >>

(* C16: in a run with a resolved target the clean has run and ended before *)
(* the dry-run build is started, no line is read before the build is       *)
(* started, the list is returned at the end of the stream before the exit  *)
(* status is collected, and the file is written only after that; whatever  *)
(* status the clean ended with, the next step is the start of the build.   *)
C16_OrchestrationOrder ==
    command # <<>> =>
        /\ IsPrefix(events, Orchestration)
        /\ clean_rc # Nothing <=> Len(events) >= 1
        /\ Len(events) = 1 => pc = "popen" /\ ENABLED StartBuild
        /\ state # None <=> Len(events) >= 2
        /\ read # <<>> => Len(events) >= 2
        /\ db # Nothing <=> Len(events) >= 3
        /\ db # Nothing => db[1] = records
        /\ res # Nothing <=> Len(events) >= 4
        /\ dbfile # Nothing <=> Len(events) = 5

\* a clean that failed, and a database written all the same
C16_Witness ==
    /\ clean_rc = Some(2)
    /\ read # <<>>
    /\ res = Some(0)
    /\ dbfile # Nothing
    /\ events = Orchestration

(* C17: a line read in awaiting-file that holds both a marker and a        *)
(* command pattern appends, in that one step, the record of that line's    *)
(* file and that line's command, and the step ends in awaiting-file; no    *)
(* line appends more than one record.                                      *)
C17_SameLineCompletion ==
    [][pc = "parse" /\ read' # read =>
          /\ Len(records') <= Len(records) + 1
          /\ state = "start" /\ IsFileLine(LineRead) /\ IsCmdLine(LineRead) =>
                /\ pc' = "parse"
                /\ state' = "start"
                /\ records' = Append(records,
                      [directory |-> QMK_FIRMWARE,
                       command   |-> DerivedCommand(CmdMatch[LineRead].group),
                       file      |-> FileMatch[LineRead].group])]_vars

\* the build waits for room in the stderr pipe, which nothing reads, and
\* compiledb waits for a line or the end of stdout
Deadlocked ==
    /\ pc = "parse"
    /\ proc = "running"
    /\ stdout = <<>>
    /\ out_left = 0
    /\ err_left > 0
    /\ stderr = StderrCap

(* C18: whatever the build writes to its two pipes, a run that waits for   *)
(* the output of the build is never stuck: while compiledb is in the loop  *)
(* of parse_make_n, it can read a line that is in the pipe, or the build   *)
(* or compiledb can take another step; so the run goes on to the end of    *)
(* the stream and to the collection of the exit status.                    *)
C18_NoDeadlock ==
    pc = "parse" => stdout # <<>> \/ ENABLED NextPipe

====
